---- MODULE Spec2Model ----
(***************************************************************************)
(* Model of the UCL_LIU input-method engine (rust/src):                    *)
(*   - Dictionary            (dictionary.rs)                               *)
(*   - InputMethodState and InputMethodProcessor (input_method.rs)         *)
(*   - KeyboardHook::process_keyboard_event      (keyboard_hook.rs)        *)
(*   - KeyboardHook::run_with_fltk and the overlay (gui_window.rs)         *)
(* Strings of the program are sequences of one-character strings, an       *)
(* Option<T> is a sequence of length 0 (None) or 1 (Some).                 *)
(***************************************************************************)
EXTENDS Integers, Sequences, FiniteSets, TLC

VARIABLES
    state,                      \* InputMethodProcessor.state : InputMethodState
    last,                       \* the last processor call and what it returned
    typed,                      \* letters given to handle_code_input since the state was last clear
    CTRL_PRESSED,               \* thread_local flags of keyboard_hook.rs
    ALT_PRESSED,
    SHIFT_PRESSED,
    SHIFT_TOGGLE,               \* FALSE = intercepting, TRUE = pass-through
    SHIFT_USED_WITH_OTHER_KEY,
    should_quit,                \* AppState.should_quit
    gui_visible,                \* GuiWindowManager.visible
    gui_needs_update,           \* AppState.gui_needs_update
    ev,                         \* the last keyboard event and the hook's answer to it
    pc,                         \* where run_with_fltk is in its loop
    shift_gesture,              \* "none": Shift is up; "alone": Shift is down and no other
                                \* key went down since; "combined": Shift is down and
                                \* some other key went down since
    locks,                      \* the Mutexes of AppState: for each, the frame of the
                                \* (only) thread that holds its guard, or "free"
    hook_pc,                    \* where a call of low_level_keyboard_proc that has not
                                \* returned is, or "idle"
    displayed,                  \* the InputMethodState the overlay's labels were last
                                \* set from (GuiWindow::update_display)
    window_keys                 \* key-downs posted to the overlay window, not yet handled

vars_im == <<state, last, typed>>

vars_thread == <<locks, hook_pc, displayed, window_keys>>

vars_hook == <<CTRL_PRESSED, ALT_PRESSED, SHIFT_PRESSED, SHIFT_TOGGLE,
               SHIFT_USED_WITH_OTHER_KEY, should_quit, gui_visible,
               gui_needs_update, ev, shift_gesture, pc, vars_thread>>

vars == <<state, last, typed, CTRL_PRESSED, ALT_PRESSED, SHIFT_PRESSED, SHIFT_TOGGLE,
          SHIFT_USED_WITH_OTHER_KEY, should_quit, gui_visible, gui_needs_update,
          ev, shift_gesture, pc, vars_thread>>

----------------------------------------------------------------------------
(* Option<T> *)

None == <<>>

Some(x) == <<x>>

is_some(o) == Len(o) = 1

unwrap(o) == o[1]

----------------------------------------------------------------------------
(* Characters *)

LowerAlphabet ==
    <<"a","b","c","d","e","f","g","h","i","j","k","l","m",
      "n","o","p","q","r","s","t","u","v","w","x","y","z">>

UpperAlphabet ==
    <<"A","B","C","D","E","F","G","H","I","J","K","L","M",
      "N","O","P","Q","R","S","T","U","V","W","X","Y","Z">>

is_ascii_lowercase(ch) == \E i \in 1..26 : LowerAlphabet[i] = ch

is_ascii_uppercase(ch) == \E i \in 1..26 : UpperAlphabet[i] = ch

to_ascii_lowercase(ch) ==
    IF is_ascii_uppercase(ch)
    THEN LowerAlphabet[CHOOSE i \in 1..26 : UpperAlphabet[i] = ch]
    ELSE ch

\* the longest code append_code accepts
MaxCodeLen == 5

\* InputMethodState::default: candidates_per_page
candidates_per_page == 6

----------------------------------------------------------------------------
(* Dictionary: the loaded table code -> candidates.  Keys are lower case.  *)
(* The table holds a key with more than one page of candidates, keys with  *)
(* too few candidates for some shortcut letters, a key ("asa") that        *)
(* extends a non-key ("as"), keys of the maximal and of more than the      *)
(* maximal code length (one of them with two pages of candidates), keys    *)
(* with no candidate and punctuation keys.                                 *)

code_to_chars ==
    ( <<"a">>                         :> <<"a1","a2","a3","a4","a5","a6","a7">> ) @@
    ( <<"a","v">>                     :> <<"av1">> ) @@
    ( <<"a","s","a">>                 :> <<"asa1">> ) @@
    ( <<"a","a">>                     :> <<"aa1","aa2">> ) @@
    ( <<"r">>                         :> <<>> ) @@
    ( <<"a","a","a","a">>             :> <<"q1","q2">> ) @@
    ( <<"a","a","a","a","v","s">>     :> <<"z1">> ) @@
    ( <<"a","a","a","a","a">>         :> <<"m1","m2","m3","m4","m5","m6","m7">> ) @@
    ( <<"a","a","a","a","a","r">>     :> <<"n1">> ) @@
    ( <<".">>                         :> <<"dot">> ) @@
    ( <<".",".">>                     :> <<"colon">> ) @@
    ( <<".",",">>                     :> <<"semicolon">> ) @@
    ( <<",">>                         :> <<"comma">> ) @@
    ( <<"a",".">>                     :> <<"qmark">> ) @@
    ( <<"s",",">>                     :> <<>> ) @@
    ( <<";">>                         :> <<>> )

\* Dictionary::lookup
lookup(code) ==
    IF code \in DOMAIN code_to_chars THEN Some(code_to_chars[code]) ELSE None

\* Dictionary::get_candidate_count
get_candidate_count(code) ==
    IF is_some(lookup(code)) THEN Len(unwrap(lookup(code))) ELSE 0

\* str::starts_with
starts_with(key, prefix) ==
    /\ Len(prefix) <= Len(key)
    /\ SubSeq(key, 1, Len(prefix)) = prefix

\* Dictionary::has_prefix
has_prefix(prefix) ==
    \E key \in DOMAIN code_to_chars : starts_with(key, prefix) /\ key # prefix

----------------------------------------------------------------------------
(* InputMethodState *)

\* InputMethodState::default
default_state ==
    [ current_code        |-> <<>>,
      candidates          |-> <<>>,
      candidate_index     |-> 0,
      complement_selected |-> None ]

\* clear that leaves complement_selected
clear_keeps_selected(st) ==
    [ current_code        |-> <<>>,
      candidates          |-> <<>>,
      candidate_index     |-> 0,
      complement_selected |-> st.complement_selected ]

\* InputMethodState::clear
clear(st) ==
    [ current_code        |-> <<>>,
      candidates          |-> <<>>,
      candidate_index     |-> 0,
      complement_selected |-> None ]

\* append_code without its length check
append_code_unbounded(st, ch) ==
    [st EXCEPT !.current_code = Append(@, ch), !.complement_selected = None]

\* append_code that leaves complement_selected as it is
append_code_keeps_selected(st, ch) ==
    IF Len(st.current_code) < MaxCodeLen
    THEN [st EXCEPT !.current_code = Append(@, ch)]
    ELSE st

\* InputMethodState::append_code
append_code(st, ch) ==
    IF Len(st.current_code) < MaxCodeLen
    THEN [st EXCEPT !.current_code = Append(@, ch), !.complement_selected = None]
    ELSE st

\* delete_last_code that removes the first character
delete_first_code(st) ==
    IF st.current_code # <<>>
    THEN [st EXCEPT !.current_code = Tail(@)]
    ELSE st

\* InputMethodState::delete_last_code
delete_last_code(st) ==
    IF st.current_code # <<>>
    THEN [st EXCEPT !.current_code = SubSeq(@, 1, Len(@) - 1)]
    ELSE st

\* lookup_candidates that leaves the candidates of the old Code
lookup_candidates_stale(st) == st

\* InputMethodState::lookup_candidates
lookup_candidates(st) ==
    IF st.current_code = <<>>
    THEN [st EXCEPT !.candidates = <<>>, !.candidate_index = 0]
    ELSE IF is_some(lookup(st.current_code))
         THEN [st EXCEPT !.candidates = unwrap(lookup(st.current_code)),
                         !.candidate_index = 0]
         ELSE [st EXCEPT !.candidates = <<>>, !.candidate_index = 0]

min(a, b) == IF a <= b THEN a ELSE b

\* usize::saturating_sub
saturating_sub(a, b) == IF a >= b THEN a - b ELSE 0

\* get_current_page_candidates giving every candidate from the cursor on
get_current_page_candidates_unpaged(st) ==
    LET start == st.candidate_index
    IN  IF start >= Len(st.candidates)
        THEN <<>>
        ELSE SubSeq(st.candidates, start + 1, Len(st.candidates))

\* InputMethodState::get_current_page_candidates
get_current_page_candidates(st) ==
    LET start == st.candidate_index
        end   == min(start + candidates_per_page, Len(st.candidates))
    IN  IF start >= Len(st.candidates)
        THEN <<>>
        ELSE SubSeq(st.candidates, start + 1, end)

\* InputMethodState::has_next_page
has_next_page(st) ==
    st.candidate_index + candidates_per_page < Len(st.candidates)

\* InputMethodState::has_prev_page
has_prev_page(st) == st.candidate_index > 0

\* next_page that does not ask whether a further page exists
next_page_unclamped(st) ==
    [st EXCEPT !.candidate_index = @ + candidates_per_page]

\* InputMethodState::next_page
next_page(st) ==
    IF has_next_page(st)
    THEN [st EXCEPT !.candidate_index = @ + candidates_per_page]
    ELSE st

\* InputMethodState::prev_page
prev_page(st) ==
    IF has_prev_page(st)
    THEN [st EXCEPT !.candidate_index = saturating_sub(@, candidates_per_page)]
    ELSE st

\* select_candidate that counts from the first candidate, not from the page
select_candidate_first_page(st, index) ==
    IF index < Len(st.candidates) THEN Some(st.candidates[index + 1]) ELSE None

\* InputMethodState::select_candidate (index counts from 0)
select_candidate(st, index) ==
    LET page_candidates == get_current_page_candidates(st)
    IN  IF index < Len(page_candidates)
        THEN Some(page_candidates[index + 1])
        ELSE None

----------------------------------------------------------------------------
(* InputMethodProcessor.  Each operation yields the new state and what the *)
(* method returns: ok (the bool) and text (the Option<String>).            *)

Ret(st, ok, text) == [st |-> st, ok |-> ok, text |-> text]

ComplementLetters == {"v", "r", "s", "f", "w"}

\* candidate_index counted from 1 instead of 0
complement_index_from_one(ch) ==
    CASE ch = "v" -> 2
      [] ch = "r" -> 3
      [] ch = "s" -> 4
      [] ch = "f" -> 5
      [] ch = "w" -> 6

\* the match of handle_code_input: (candidate_index, min_candidates)
complement_index(ch) ==
    CASE ch = "v" -> 1
      [] ch = "r" -> 2
      [] ch = "s" -> 3
      [] ch = "f" -> 4
      [] ch = "w" -> 5

complement_min(ch) ==
    CASE ch = "v" -> 2
      [] ch = "r" -> 3
      [] ch = "s" -> 4
      [] ch = "f" -> 5
      [] ch = "w" -> 6

\* should_trigger_complement that never asks the dictionary for longer keys
should_trigger_always(code_with_suffix) == TRUE

\* should_trigger_complement of handle_code_input
should_trigger_complement(code_with_suffix) ==
    IF Len(code_with_suffix) < MaxCodeLen
    THEN ~has_prefix(code_with_suffix)
    ELSE TRUE

\* the guard of the complement branch without the lookup of code_with_suffix
complement_applies_unlooked(st, ch_lower) ==
    /\ st.current_code # <<>>
    /\ is_some(lookup(st.current_code))
    /\ Len(unwrap(lookup(st.current_code))) >= complement_min(ch_lower)
    /\ Len(unwrap(lookup(st.current_code))) > complement_index(ch_lower)
    /\ should_trigger_complement(Append(st.current_code, ch_lower))

\* the guard of the complement branch of handle_code_input, ch_lower a
\* complement letter
complement_applies(st, ch_lower) ==
    LET current_code       == st.current_code
        code_with_suffix   == Append(current_code, ch_lower)
        exists_with_suffix == is_some(lookup(code_with_suffix))
    IN  /\ ~exists_with_suffix
        /\ current_code # <<>>
        /\ is_some(lookup(current_code))
        /\ Len(unwrap(lookup(current_code))) >= complement_min(ch_lower)
        /\ Len(unwrap(lookup(current_code))) > complement_index(ch_lower)
        /\ should_trigger_complement(code_with_suffix)

\* InputMethodProcessor::handle_code_input
handle_code_input(st, ch) ==
    IF ~is_ascii_lowercase(ch) /\ ~is_ascii_uppercase(ch)
    THEN Ret(st, FALSE, None)
    ELSE LET ch_lower == to_ascii_lowercase(ch)
         IN  IF ch_lower \in ComplementLetters /\ complement_applies(st, ch_lower)
             THEN LET selected ==
                          unwrap(lookup(st.current_code))[complement_index(ch_lower) + 1]
                  IN  Ret([st EXCEPT !.complement_selected = Some(selected)],
                          TRUE, Some(selected))
             ELSE Ret(lookup_candidates(append_code(st, ch_lower)), TRUE, None)

\* handle_symbol_input that adds the symbol to Code and resolves nothing
handle_symbol_input_appending(st, symbol) ==
    Ret(append_code(st, symbol), FALSE, None)

\* handle_symbol_input that keeps the tentative append when nothing is found
handle_symbol_input_unreverted(st, symbol) ==
    LET code_with_symbol == Append(st.current_code, symbol)
        appended         == append_code(st, symbol)
        hit(code)        == is_some(lookup(code)) /\ unwrap(lookup(code)) # <<>>
        first(code)      == unwrap(lookup(code))[1]
    IN  IF st.current_code # <<>> /\ hit(code_with_symbol)
        THEN Ret([st EXCEPT !.complement_selected = Some(first(code_with_symbol))],
                 TRUE, Some(first(code_with_symbol)))
        ELSE IF st.current_code = <<>>
        THEN IF hit(appended.current_code)
             THEN Ret([appended EXCEPT
                          !.complement_selected = Some(first(appended.current_code))],
                      TRUE, Some(first(appended.current_code)))
             ELSE Ret(appended, FALSE, None)
        ELSE Ret(st, FALSE, None)

\* InputMethodProcessor::handle_symbol_input
handle_symbol_input(st, symbol) ==
    LET current_code     == st.current_code
        code_with_symbol == Append(current_code, symbol)
        appended         == append_code(st, symbol)
        new_code         == appended.current_code
        symbol_str       == <<symbol>>
        hit(code)        == is_some(lookup(code)) /\ unwrap(lookup(code)) # <<>>
        first(code)      == unwrap(lookup(code))[1]
    IN  IF current_code # <<>> /\ hit(code_with_symbol)
        THEN Ret([st EXCEPT !.complement_selected = Some(first(code_with_symbol))],
                 TRUE, Some(first(code_with_symbol)))
        ELSE IF current_code = <<>>
        THEN IF hit(new_code)
             THEN Ret([appended EXCEPT !.complement_selected = Some(first(new_code))],
                      TRUE, Some(first(new_code)))
             ELSE IF hit(symbol_str)
             THEN Ret([appended EXCEPT !.complement_selected = Some(first(symbol_str))],
                      TRUE, Some(first(symbol_str)))
             ELSE Ret([appended EXCEPT !.current_code = SubSeq(@, 1, Len(@) - 1)],
                      FALSE, None)
        ELSE Ret(st, FALSE, None)

\* InputMethodProcessor::handle_number_selection
handle_number_selection(st, num) ==
    IF num > 9
    THEN Ret(st, FALSE, None)
    ELSE LET index    == IF num = 0 THEN 9 ELSE num - 1
             selected == select_candidate(st, index)
         IN  IF is_some(selected)
             THEN Ret(clear(st), TRUE, selected)
             ELSE Ret(st, FALSE, None)

\* handle_backspace that does not look the shortened Code up
handle_backspace_stale(st) ==
    IF st.current_code = <<>>
    THEN Ret(st, FALSE, None)
    ELSE Ret(delete_last_code(st), TRUE, None)

\* InputMethodProcessor::handle_backspace
handle_backspace(st) ==
    IF st.current_code = <<>>
    THEN Ret(st, FALSE, None)
    ELSE Ret(lookup_candidates(delete_last_code(st)), TRUE, None)

\* handle_space that looks at the candidates before complement_selected
handle_space_head_first(st) ==
    IF st.candidates # <<>>
    THEN Ret(clear(st), TRUE, Some(st.candidates[1]))
    ELSE IF is_some(st.complement_selected)
    THEN Ret(clear(st), TRUE, st.complement_selected)
    ELSE Ret(st, FALSE, None)

\* InputMethodProcessor::handle_space
handle_space(st) ==
    IF is_some(st.complement_selected)
    THEN Ret(clear([st EXCEPT !.complement_selected = None]), TRUE, st.complement_selected)
    ELSE IF st.candidates # <<>>
    THEN Ret(clear(st), TRUE, Some(st.candidates[1]))
    ELSE Ret(st, FALSE, None)

\* InputMethodProcessor::handle_enter: a peek at the raw code
handle_enter(st) ==
    IF st.current_code # <<>>
    THEN Ret(st, TRUE, Some(st.current_code))
    ELSE Ret(st, FALSE, None)

\* InputMethodProcessor::clear
processor_clear(st) == Ret(clear(st), TRUE, None)

----------------------------------------------------------------------------
(* The processor driven call by call, as its unit tests drive it.          *)

\* characters given to handle_code_input: letters of both cases and a digit
CodeChars == {"a", "v", "r", "s", "f", "w", "A", "1"}

\* characters given to handle_symbol_input
SymbolChars == {".", ",", ";"}

\* numbers given to handle_number_selection (10 is out of range)
Numbers == {0, 1, 2, 6, 7, 10}

\* Bound on the typing: a further shortcut letter is typed only while Code
\* holds fewer than this many of them
MaxShortcutLetters == 2

ShortcutLettersIn(code) ==
    Cardinality({i \in 1..Len(code) : code[i] \in ComplementLetters})

Typable(st, ch) ==
    \/ to_ascii_lowercase(ch) \notin ComplementLetters
    \/ ShortcutLettersIn(st.current_code) < MaxShortcutLetters

\* typed when some call other than handle_code_input came since the clear state
NoTrail == <<"#">>

\* pre_len: the length of Code when the call was made
Call(op, ch, num, r) ==
    [op |-> op, ch |-> ch, num |-> num, ok |-> r.ok, text |-> r.text,
     pre_len |-> Len(state.current_code)]

Trail(r, t) == IF r.st = default_state THEN <<>> ELSE t

\* the Mutexes of AppState that the hook, the loop and the overlay lock
LockNames == {"gui_window_manager", "input_processor", "input_simulator"}

InitHook ==
    /\ CTRL_PRESSED = FALSE
    /\ ALT_PRESSED = FALSE
    /\ SHIFT_PRESSED = FALSE
    /\ SHIFT_TOGGLE = FALSE
    /\ SHIFT_USED_WITH_OTHER_KEY = FALSE
    /\ should_quit = FALSE
    /\ gui_visible = TRUE
    /\ gui_needs_update = FALSE
    /\ ev = [vk |-> 0, w_param |-> 0, injected |-> FALSE, blocked |-> FALSE,
             sent |-> None, sent_ok |-> FALSE]
    /\ shift_gesture = "none"
    /\ pc = "fltk_check"
    /\ locks = [l \in LockNames |-> "free"]
    /\ hook_pc = "idle"
    /\ displayed = default_state
    /\ window_keys = <<>>

Init ==
    /\ state = default_state
    /\ last = [op |-> "new", ch |-> "", num |-> 0, ok |-> FALSE, text |-> None,
               pre_len |-> 0]
    /\ typed = <<>>
    /\ InitHook

CodeInput(ch) ==
    \E r \in {handle_code_input(state, ch)} :
        /\ Typable(state, ch)
        /\ state' = r.st
        /\ last' = Call("handle_code_input", ch, 0, r)
        /\ typed' = Trail(r, IF typed = NoTrail \/ ~r.ok \/ Len(typed) >= MaxCodeLen
                              THEN NoTrail
                              ELSE Append(typed, to_ascii_lowercase(ch)))
        /\ UNCHANGED vars_hook

SymbolInput(symbol) ==
    \E r \in {handle_symbol_input(state, symbol)} :
        /\ state' = r.st
        /\ last' = Call("handle_symbol_input", symbol, 0, r)
        /\ typed' = Trail(r, NoTrail)
        /\ UNCHANGED vars_hook

NumberSelection(num) ==
    \E r \in {handle_number_selection(state, num)} :
        /\ state' = r.st
        /\ last' = Call("handle_number_selection", "", num, r)
        /\ typed' = Trail(r, NoTrail)
        /\ UNCHANGED vars_hook

Backspace ==
    \E r \in {handle_backspace(state)} :
        /\ state' = r.st
        /\ last' = Call("handle_backspace", "", 0, r)
        /\ typed' = Trail(r, NoTrail)
        /\ UNCHANGED vars_hook

Space ==
    \E r \in {handle_space(state)} :
        /\ state' = r.st
        /\ last' = Call("handle_space", "", 0, r)
        /\ typed' = Trail(r, NoTrail)
        /\ UNCHANGED vars_hook

Enter ==
    \E r \in {handle_enter(state)} :
        /\ state' = r.st
        /\ last' = [op |-> "handle_enter", ch |-> "", num |-> 0, ok |-> r.ok,
                    text |-> None, pre_len |-> Len(state.current_code)]
        /\ typed' = Trail(r, NoTrail)
        /\ UNCHANGED vars_hook

Clear ==
    \E r \in {processor_clear(state)} :
        /\ state' = r.st
        /\ last' = Call("clear", "", 0, r)
        /\ typed' = Trail(r, NoTrail)
        /\ UNCHANGED vars_hook

NextPage ==
    /\ state' = next_page(state)
    /\ last' = [op |-> "next_page", ch |-> "", num |-> 0, ok |-> has_next_page(state),
                text |-> None, pre_len |-> Len(state.current_code)]
    /\ typed' = IF state' = default_state THEN <<>> ELSE NoTrail
    /\ UNCHANGED vars_hook

PrevPage ==
    /\ state' = prev_page(state)
    /\ last' = [op |-> "prev_page", ch |-> "", num |-> 0, ok |-> has_prev_page(state),
                text |-> None, pre_len |-> Len(state.current_code)]
    /\ typed' = IF state' = default_state THEN <<>> ELSE NoTrail
    /\ UNCHANGED vars_hook

ProcessorNext ==
    \/ \E ch \in CodeChars : CodeInput(ch)
    \/ \E symbol \in SymbolChars : SymbolInput(symbol)
    \/ \E num \in Numbers : NumberSelection(num)
    \/ Backspace
    \/ Space
    \/ Enter
    \/ Clear
    \/ NextPage
    \/ PrevPage

ProcessorSpec == Init /\ [][ProcessorNext]_vars

----------------------------------------------------------------------------
(* KeyboardHook::process_keyboard_event.  h holds the thread_local flags   *)
(* and the shared flags the callback reads and writes, st the processor's  *)
(* state.  The result holds both after the event, blocked (the callback's  *)
(* Ok(true)), and the text handed to send_text_paste, if any.              *)

WM_KEYDOWN_VALUE == 256

WM_KEYUP_VALUE == 257

WM_SYSKEYDOWN == 260

is_shift_vk(vk) == vk = 16 \/ vk = 160 \/ vk = 161

is_ctrl_vk(vk) == vk = 17 \/ vk = 162 \/ vk = 163

is_alt_vk(vk) == vk = 18 \/ vk = 164 \/ vk = 165

Hook ==
    [ CTRL_PRESSED |-> CTRL_PRESSED,
      ALT_PRESSED |-> ALT_PRESSED,
      SHIFT_PRESSED |-> SHIFT_PRESSED,
      SHIFT_TOGGLE |-> SHIFT_TOGGLE,
      SHIFT_USED_WITH_OTHER_KEY |-> SHIFT_USED_WITH_OTHER_KEY,
      should_quit |-> should_quit,
      gui_visible |-> gui_visible,
      gui_needs_update |-> gui_needs_update ]

Out(h, st, blocked, sent, sent_ok) ==
    [h |-> h, st |-> st, blocked |-> blocked, sent |-> sent, sent_ok |-> sent_ok]

Forward(h, st) == Out(h, st, FALSE, None, FALSE)

Block(h, st) == Out(h, st, TRUE, None, FALSE)

Dirty(h) == [h EXCEPT !.gui_needs_update = TRUE]

\* char::from(vk_value as u8) for the letter keys 65..=90
char_from(vk) == UpperAlphabet[vk - 64]

\* the hot key Ctrl+Space hiding the overlay but never showing it again
toggle_gui_hide_only(h, st) ==
    IF h.gui_visible
    THEN Block([h EXCEPT !.gui_visible = FALSE, !.gui_needs_update = TRUE], clear(st))
    ELSE Block(h, st)

\* the hot key Ctrl+Space: GuiWindowManager::hide / show.  GuiWindow::hide
\* clears the processor and sets gui_needs_update.
toggle_gui(h, st) ==
    IF h.gui_visible
    THEN Block([h EXCEPT !.gui_visible = FALSE, !.gui_needs_update = TRUE], clear(st))
    ELSE Block([h EXCEPT !.gui_visible = TRUE], st)

\* the Shift key-up branch swallowing the tap that changes the mode
shift_key_up_consuming(h, st) ==
    LET used_with_other == h.SHIFT_USED_WITH_OTHER_KEY
        h1 == [h EXCEPT !.SHIFT_USED_WITH_OTHER_KEY = FALSE, !.SHIFT_PRESSED = FALSE]
    IN  IF ~used_with_other
        THEN LET h2 == [h1 EXCEPT !.SHIFT_TOGGLE = ~@]
             IN  IF st.current_code # <<>>
                 THEN Block(Dirty(h2), clear(st))
                 ELSE Block(h2, st)
        ELSE Forward(h1, st)

\* the branch of a lone Shift key up
shift_key_up(h, st) ==
    LET used_with_other == h.SHIFT_USED_WITH_OTHER_KEY
        h1 == [h EXCEPT !.SHIFT_USED_WITH_OTHER_KEY = FALSE, !.SHIFT_PRESSED = FALSE]
    IN  IF ~used_with_other
        THEN LET h2 == [h1 EXCEPT !.SHIFT_TOGGLE = ~@]
             IN  IF st.current_code # <<>>
                 THEN Forward(Dirty(h2), clear(st))
                 ELSE Forward(h2, st)
        ELSE Forward(h1, st)

\* match arm 27 clearing and blocking whether or not there is a Code
key_escape_unconditional(h, st) ==
    Block(Dirty(h), clear(st))

\* match arm 27: Escape
key_escape(h, st) ==
    IF st.current_code # <<>>
    THEN Block(Dirty(h), clear(st))
    ELSE Forward(h, st)

\* match arm 8: Backspace
key_backspace(h, st) ==
    LET r == handle_backspace(st)
    IN  IF r.ok THEN Block(Dirty(h), r.st) ELSE Forward(h, st)

\* match arm 32: Space
key_space(h, st, send_ok) ==
    LET has_complement == is_some(st.complement_selected)
        has_input      == st.current_code # <<>>
        r              == handle_space(st)
    IN  IF has_complement \/ has_input
        THEN IF is_some(r.text)
             THEN Out(Dirty(h), clear(r.st), send_ok, r.text, send_ok)
             ELSE Block(Dirty(h), clear(r.st))
        ELSE Forward(h, st)

\* match arm 13 delivering what handle_enter peeks at, the raw Code (here its
\* first character), instead of what handle_space resolves
key_enter_raw_code(h, st, send_ok) ==
    LET has_input == st.current_code # <<>>
    IN  IF has_input
        THEN Out(Dirty(h), clear(st), send_ok, Some(st.current_code[1]), send_ok)
        ELSE Forward(h, st)

\* match arm 13 clearing the processor only after a delivery that succeeded
key_enter_clearing_on_success(h, st, send_ok) ==
    LET has_input == st.current_code # <<>>
        r         == handle_space(st)
    IN  IF has_input
        THEN IF is_some(r.text)
             THEN Out(Dirty(h), IF send_ok THEN clear(r.st) ELSE st, send_ok, r.text, send_ok)
             ELSE Block(Dirty(h), clear(r.st))
        ELSE Forward(h, st)

\* match arm 13: Enter
key_enter(h, st, send_ok) ==
    LET has_input == st.current_code # <<>>
        r         == handle_space(st)
    IN  IF has_input
        THEN IF is_some(r.text)
             THEN Out(Dirty(h), clear(r.st), send_ok, r.text, send_ok)
             ELSE Block(Dirty(h), clear(r.st))
        ELSE Forward(h, st)

\* match arm 48..=57: the digits
key_digit(h, st, vk, send_ok) ==
    LET num == vk - 48
        r   == handle_number_selection(st, num)
    IN  IF is_some(r.text)
        THEN Out(h, r.st, TRUE, r.text, send_ok)
        ELSE Block(h, r.st)

\* match arm 65..=90: the letters
key_letter(h, st, vk) ==
    LET ch == to_ascii_lowercase(char_from(vk))
        r  == handle_code_input(st, ch)
    IN  IF r.ok THEN Block(Dirty(h), r.st) ELSE Forward(h, r.st)

\* the symbol arms letting through a symbol that resolved nothing
key_symbol_forward_unresolved(h, st, symbol) ==
    LET r == handle_symbol_input(st, symbol)
    IN  IF r.ok THEN Block(h, r.st) ELSE Forward(h, r.st)

\* match arms 190 | 110 and 188: period and comma
key_symbol(h, st, symbol) ==
    Block(h, handle_symbol_input(st, symbol).st)

\* the match arms that let the key through
is_forwarded_vk(vk) ==
    \/ vk \in 112..114 \/ vk \in 116..135
    \/ vk \in {37, 38, 39, 40}
    \/ vk \in {9, 20, 144, 145}
    \/ vk \in {33, 34, 35, 36}
    \/ vk \in {45, 46, 19, 44, 91, 92, 18, 93}

\* match vk_value with a default arm that lets the key through
route_key_default_forwarding(h, st, vk, send_ok) ==
    CASE vk = 27 -> key_escape(h, st)
      [] vk = 8 -> key_backspace(h, st)
      [] vk = 32 -> key_space(h, st, send_ok)
      [] vk = 13 -> key_enter(h, st, send_ok)
      [] vk \in 48..57 -> key_digit(h, st, vk, send_ok)
      [] vk \in 65..90 -> key_letter(h, st, vk)
      [] vk = 115 -> Block([h EXCEPT !.should_quit = TRUE], st)
      [] vk = 190 \/ vk = 110 -> key_symbol(h, st, ".")
      [] vk = 188 -> key_symbol(h, st, ",")
      [] OTHER -> Forward(h, st)

\* match vk_value
route_key(h, st, vk, send_ok) ==
    CASE vk = 27 -> key_escape(h, st)
      [] vk = 8 -> key_backspace(h, st)
      [] vk = 32 -> key_space(h, st, send_ok)
      [] vk = 13 -> key_enter(h, st, send_ok)
      [] vk \in 48..57 -> key_digit(h, st, vk, send_ok)
      [] vk \in 65..90 -> key_letter(h, st, vk)
      [] vk = 115 -> Block([h EXCEPT !.should_quit = TRUE], st)
      [] vk = 190 \/ vk = 110 -> key_symbol(h, st, ".")
      [] vk = 188 -> key_symbol(h, st, ",")
      [] is_forwarded_vk(vk) -> Forward(h, st)
      [] OTHER -> Block(h, st)

\* Ctrl and Alt bookkeeping and the first Shift bookkeeping block
track_modifiers(h, vk, is_key_down) ==
    LET h1 == IF is_alt_vk(vk) THEN [h EXCEPT !.ALT_PRESSED = is_key_down] ELSE h
    IN  IF is_shift_vk(vk)
        THEN IF is_key_down
             THEN [h1 EXCEPT !.SHIFT_PRESSED = TRUE, !.SHIFT_USED_WITH_OTHER_KEY = FALSE]
             ELSE [h1 EXCEPT !.SHIFT_PRESSED = FALSE]
        ELSE h1

\* the key-down part routing the key without asking whether the overlay shows
intercept_key_down_overlay_unheeded(h, st, vk, send_ok) ==
    LET h1 == IF h.SHIFT_PRESSED /\ ~is_shift_vk(vk)
              THEN [h EXCEPT !.SHIFT_USED_WITH_OTHER_KEY = TRUE]
              ELSE h
    IN  IF vk = 17 THEN Forward(h1, st)
        ELSE route_key(h1, st, vk, send_ok)

\* the key-down part after the mode and Ctrl checks
intercept_key_down(h, st, vk, send_ok) ==
    LET h1 == IF h.SHIFT_PRESSED /\ ~is_shift_vk(vk)
              THEN [h EXCEPT !.SHIFT_USED_WITH_OTHER_KEY = TRUE]
              ELSE h
    IN  IF vk = 17 THEN Forward(h1, st)
        ELSE IF h1.gui_visible THEN Forward(h1, st)
        ELSE route_key(h1, st, vk, send_ok)

\* process_keyboard_event without the check of LLKHF_INJECTED
process_keyboard_event_unfiltered(h, st, w_param, vk, injected, send_ok) ==
    LET is_key_down == w_param = WM_KEYDOWN_VALUE
        is_key_up   == w_param = WM_KEYUP_VALUE
        h1          == track_modifiers(h, vk, is_key_down)
    IN  IF ~is_key_down /\ ~is_key_up THEN Forward(h, st)
        ELSE IF is_key_down /\ vk = 115
             THEN Block([h EXCEPT !.should_quit = TRUE], st)
        ELSE IF is_ctrl_vk(vk)
             THEN Forward([h EXCEPT !.CTRL_PRESSED = is_key_down], st)
        ELSE IF is_key_down /\ vk = 32 /\ h1.CTRL_PRESSED THEN toggle_gui(h1, st)
        ELSE IF is_shift_vk(vk)
             THEN IF is_key_down THEN Forward(h1, st) ELSE shift_key_up(h1, st)
        ELSE IF h1.SHIFT_TOGGLE THEN Forward(h1, st)
        ELSE IF h1.CTRL_PRESSED /\ is_key_down THEN Forward(h1, st)
        ELSE IF ~is_key_down THEN Forward(h1, st)
        ELSE intercept_key_down(h1, st, vk, send_ok)

\* process_keyboard_event without the test of SHIFT_TOGGLE
process_keyboard_event_modeless(h, st, w_param, vk, injected, send_ok) ==
    LET is_key_down == w_param = WM_KEYDOWN_VALUE
        is_key_up   == w_param = WM_KEYUP_VALUE
        h1          == track_modifiers(h, vk, is_key_down)
    IN  IF ~is_key_down /\ ~is_key_up THEN Forward(h, st)
        ELSE IF injected THEN Forward(h, st)
        ELSE IF is_key_down /\ vk = 115
             THEN Block([h EXCEPT !.should_quit = TRUE], st)
        ELSE IF is_ctrl_vk(vk)
             THEN Forward([h EXCEPT !.CTRL_PRESSED = is_key_down], st)
        ELSE IF is_key_down /\ vk = 32 /\ h1.CTRL_PRESSED THEN toggle_gui(h1, st)
        ELSE IF is_shift_vk(vk)
             THEN IF is_key_down THEN Forward(h1, st) ELSE shift_key_up(h1, st)
        ELSE IF h1.CTRL_PRESSED /\ is_key_down THEN Forward(h1, st)
        ELSE IF ~is_key_down THEN Forward(h1, st)
        ELSE intercept_key_down(h1, st, vk, send_ok)

\* process_keyboard_event without the test of a held Ctrl
process_keyboard_event_ctrl_unheeded(h, st, w_param, vk, injected, send_ok) ==
    LET is_key_down == w_param = WM_KEYDOWN_VALUE
        is_key_up   == w_param = WM_KEYUP_VALUE
        h1          == track_modifiers(h, vk, is_key_down)
    IN  IF ~is_key_down /\ ~is_key_up THEN Forward(h, st)
        ELSE IF injected THEN Forward(h, st)
        ELSE IF is_key_down /\ vk = 115
             THEN Block([h EXCEPT !.should_quit = TRUE], st)
        ELSE IF is_ctrl_vk(vk)
             THEN Forward([h EXCEPT !.CTRL_PRESSED = is_key_down], st)
        ELSE IF is_key_down /\ vk = 32 /\ h1.CTRL_PRESSED THEN toggle_gui(h1, st)
        ELSE IF is_shift_vk(vk)
             THEN IF is_key_down THEN Forward(h1, st) ELSE shift_key_up(h1, st)
        ELSE IF h1.SHIFT_TOGGLE THEN Forward(h1, st)
        ELSE IF ~is_key_down THEN Forward(h1, st)
        ELSE intercept_key_down(h1, st, vk, send_ok)

\* KeyboardHook::process_keyboard_event
process_keyboard_event(h, st, w_param, vk, injected, send_ok) ==
    LET is_key_down == w_param = WM_KEYDOWN_VALUE
        is_key_up   == w_param = WM_KEYUP_VALUE
        h1          == track_modifiers(h, vk, is_key_down)
    IN  IF ~is_key_down /\ ~is_key_up THEN Forward(h, st)
        ELSE IF injected THEN Forward(h, st)
        ELSE IF is_key_down /\ vk = 115
             THEN Block([h EXCEPT !.should_quit = TRUE], st)
        ELSE IF is_ctrl_vk(vk)
             THEN Forward([h EXCEPT !.CTRL_PRESSED = is_key_down], st)
        ELSE IF is_key_down /\ vk = 32 /\ h1.CTRL_PRESSED THEN toggle_gui(h1, st)
        ELSE IF is_shift_vk(vk)
             THEN IF is_key_down THEN Forward(h1, st) ELSE shift_key_up(h1, st)
        ELSE IF h1.SHIFT_TOGGLE THEN Forward(h1, st)
        ELSE IF h1.CTRL_PRESSED /\ is_key_down THEN Forward(h1, st)
        ELSE IF ~is_key_down THEN Forward(h1, st)
        ELSE intercept_key_down(h1, st, vk, send_ok)

----------------------------------------------------------------------------
(* The running program: the hook called for every keystroke of the system, *)
(* and the main loop redrawing the overlay.                                *)

\* Virtual keys: A, 1, Space, Enter, Backspace, Escape, period, Shift,
\* Ctrl, Alt, F4, Tab, and VK_OEM_1 (a key the hook does not recognize)
HookKeys == {65, 49, 32, 13, 8, 27, 190, 16, 17, 18, 115, 9, 186}

\* the keys send_text_paste synthesizes: Ctrl and V
InjectedKeys == {17, 86}

\* key-down and key-up events of the given keys, and of those synthesized
Events(keys, synthesized) ==
    ({WM_KEYDOWN_VALUE, WM_KEYUP_VALUE} \X keys \X {FALSE})
        \cup ({WM_KEYDOWN_VALUE, WM_KEYUP_VALUE} \X synthesized \X {TRUE})

\* the places of run_with_fltk where pending messages are retrieved, and so
\* where the system calls low_level_keyboard_proc: fltk::app::check(), the
\* fltk::app::check() of GuiWindowManager::update_display, and PeekMessageW
PumpPositions == {"fltk_check", "update_check", "peek"}

\* low_level_keyboard_proc, r being what process_keyboard_event gives
KeyEventAnswered(w_param, vk, injected, send_ok, r) ==
    LET seen_down == w_param = WM_KEYDOWN_VALUE /\ ~injected
        seen_up == w_param = WM_KEYUP_VALUE /\ ~injected
    IN  /\ pc \in PumpPositions
        /\ (seen_down /\ vk \in 65..90) => Typable(state, char_from(vk))
        \* the keyboard: Shift goes up only when it is down, and it repeats its
        \* key-down only while it is the last key that went down
        /\ (seen_up /\ is_shift_vk(vk)) => shift_gesture # "none"
        /\ (seen_down /\ is_shift_vk(vk)) => shift_gesture # "combined"
        /\ is_some(r.sent) \/ send_ok
        /\ state' = r.st
        /\ CTRL_PRESSED' = r.h.CTRL_PRESSED
        /\ ALT_PRESSED' = r.h.ALT_PRESSED
        /\ SHIFT_PRESSED' = r.h.SHIFT_PRESSED
        /\ SHIFT_TOGGLE' = r.h.SHIFT_TOGGLE
        /\ SHIFT_USED_WITH_OTHER_KEY' = r.h.SHIFT_USED_WITH_OTHER_KEY
        /\ should_quit' = r.h.should_quit
        /\ gui_visible' = r.h.gui_visible
        /\ gui_needs_update' = r.h.gui_needs_update
        /\ ev' = [vk |-> vk, w_param |-> w_param, injected |-> injected,
                  blocked |-> r.blocked, sent |-> r.sent, sent_ok |-> r.sent_ok]
        /\ shift_gesture' =
               IF seen_up /\ is_shift_vk(vk) THEN "none"
               ELSE IF seen_down /\ is_shift_vk(vk)
                    THEN (IF shift_gesture = "none" THEN "alone" ELSE shift_gesture)
               ELSE IF seen_down /\ shift_gesture # "none" THEN "combined"
               ELSE shift_gesture
        /\ UNCHANGED <<last, typed, pc>>

\* low_level_keyboard_proc
KeyEvent(w_param, vk, injected, send_ok) ==
    \E r \in {process_keyboard_event(Hook, state, w_param, vk, injected, send_ok)} :
        KeyEventAnswered(w_param, vk, injected, send_ok, r)

\* run_with_fltk after fltk::app::check(): the redraw of the overlay when
\* gui_needs_update is set, on the way to PeekMessageW
UpdateDisplay ==
    /\ pc = "fltk_check"
    /\ gui_needs_update' = FALSE
    /\ pc' = "peek"
    /\ UNCHANGED <<state, last, typed, CTRL_PRESSED, ALT_PRESSED, SHIFT_PRESSED,
                   SHIFT_TOGGLE, SHIFT_USED_WITH_OTHER_KEY, should_quit, gui_visible,
                   ev, shift_gesture, vars_thread>>

\* the loop without its test of should_quit
LoopIterate_unchecked(menu_exit) ==
    /\ pc = "peek"
    /\ hook_pc = "idle"
    /\ IF menu_exit
       THEN should_quit' = TRUE /\ pc' = "done"
       ELSE pc' = "fltk_check" /\ UNCHANGED should_quit
    /\ UNCHANGED <<state, last, typed, CTRL_PRESSED, ALT_PRESSED, SHIFT_PRESSED,
                   SHIFT_TOGGLE, SHIFT_USED_WITH_OTHER_KEY, gui_visible,
                   gui_needs_update, ev, shift_gesture, vars_thread>>

\* run_with_fltk from the return of PeekMessageW to the test of should_quit
\* at the top of the next iteration; no callback runs in between.  menu_exit:
\* the message is the WM_COMMAND of the tray menu's exit item.
LoopIterate(menu_exit) ==
    /\ pc = "peek"
    /\ hook_pc = "idle"
    /\ IF should_quit
       THEN pc' = "done" /\ UNCHANGED should_quit
       ELSE IF menu_exit
            THEN should_quit' = TRUE /\ pc' = "done"
            ELSE pc' = "fltk_check" /\ UNCHANGED should_quit
    /\ UNCHANGED <<state, last, typed, CTRL_PRESSED, ALT_PRESSED, SHIFT_PRESSED,
                   SHIFT_TOGGLE, SHIFT_USED_WITH_OTHER_KEY, gui_visible,
                   gui_needs_update, ev, shift_gesture, vars_thread>>

MainLoop == \E menu_exit \in BOOLEAN : LoopIterate(menu_exit)

\* a call of the hook seen as one step, from its entry to its return
Keystroke(events) ==
    /\ \E e \in events, send_ok \in BOOLEAN : KeyEvent(e[1], e[2], e[3], send_ok)
    /\ UNCHANGED vars_thread

Next ==
    \/ Keystroke(Events(HookKeys, InjectedKeys) \cup {<<WM_SYSKEYDOWN, 18, FALSE>>})
    \/ UpdateDisplay
    \/ MainLoop

Spec == Init /\ [][Next]_vars

\* The same program with other keys pressed.  Virtual keys: A, V (a shortcut
\* letter), 1, period, comma, Space, Shift, Ctrl, left Alt
RoutedKeys == {65, 86, 49, 190, 188, 32, 16, 17, 164}

KeysNext ==
    \/ Keystroke(Events(RoutedKeys, {}))
    \/ UpdateDisplay
    \/ MainLoop

KeysSpec == Init /\ [][KeysNext]_vars

----------------------------------------------------------------------------
(* The same program at the level of the frames of its one thread and of    *)
(* the Mutex guards they hold: run_with_fltk, a call of the hook made from *)
(* a place where run_with_fltk retrieves messages, and the overlay         *)
(* window's key handler called from a place where run_with_fltk or the     *)
(* hook retrieves them.                                                    *)

\* Virtual keys: A, 1, Space, Escape, Shift, Ctrl
ThreadKeys == {65, 49, 32, 27, 16, 17}

\* the keys that go down while the overlay window has the keyboard focus:
\* Escape and A
OverlayKeys == {27, 65}

\* Bound on the key-downs posted to the overlay window and not yet handled
MaxWindowKeys == 1

\* Bound on the typing: a letter goes down only while Code holds fewer than
\* this many characters
MaxComposed == 2

Composable(vk) == vk \in 65..90 => Len(state.current_code) < MaxComposed

\* the Mutexes process_keyboard_event locks on its way through, for this
\* event in this state; sends: the event resolves a string
locks_wanted(h, st, w_param, vk, injected, sends) ==
    LET is_key_down == w_param = WM_KEYDOWN_VALUE
        is_key_up   == w_param = WM_KEYUP_VALUE
        h1          == track_modifiers(h, vk, is_key_down)
    IN  IF ~is_key_down /\ ~is_key_up THEN {}
        ELSE IF injected THEN {}
        ELSE IF is_key_down /\ vk = 115 THEN {}
        ELSE IF is_ctrl_vk(vk) THEN {}
        ELSE IF is_key_down /\ vk = 32 /\ h1.CTRL_PRESSED
             THEN {"gui_window_manager", "input_processor"}
        ELSE IF is_shift_vk(vk)
             THEN IF is_key_up /\ ~h1.SHIFT_USED_WITH_OTHER_KEY
                  THEN {"input_processor"}
                  ELSE {}
        ELSE IF h1.SHIFT_TOGGLE THEN {}
        ELSE IF h1.CTRL_PRESSED /\ is_key_down THEN {}
        ELSE IF ~is_key_down THEN {}
        ELSE IF vk = 17 THEN {}
        ELSE IF h1.gui_visible THEN {"gui_window_manager"}
        ELSE IF vk \in {27, 8, 32, 13, 190, 110, 188} \cup (48..57) \cup (65..90)
             THEN {"gui_window_manager", "input_processor"}
                      \cup (IF sends THEN {"input_simulator"} ELSE {})
        ELSE {"gui_window_manager"}

\* the Mutexes whose guards are alive in the match arm of vk when it calls
\* send_text_paste: in the arms of Space and Enter the processor's guard
\* lives in a block that ends before, in the arm of the digits it lives to
\* the end of the arm
locks_at_send(vk) ==
    IF vk \in 48..57
    THEN {"input_processor", "input_simulator"}
    ELSE {"input_simulator"}

\* low_level_keyboard_proc called from a place where run_with_fltk retrieves
\* messages: up to its return, or to its call of send_text_paste, or to the
\* fltk::app::check() of GuiWindow::show, or to a lock() on a Mutex whose
\* guard a frame below it holds, from which it does not come back.  (The
\* system hands the hook one event at a time, so no call is made while
\* another has not returned.)
\* to_overlay: the overlay window has the keyboard focus and Ctrl is up, so
\* that a key-down the hook lets through is posted to it as a character.
HookCall(w_param, vk, injected, send_ok, to_overlay) ==
    \E r \in {process_keyboard_event(Hook, state, w_param, vk, injected, send_ok)} :
    \E sends \in {is_some(r.sent)}, shows \in {~gui_visible /\ r.h.gui_visible} :
    \E wanted \in {locks_wanted(Hook, state, w_param, vk, injected, sends)} :
        /\ hook_pc = "idle"
        /\ pc \in PumpPositions
        /\ Composable(vk)
        /\ IF \E l \in wanted : locks[l] # "free"
           THEN /\ hook_pc' = "blocked"
                /\ ~to_overlay
                /\ UNCHANGED <<state, last, typed, CTRL_PRESSED, ALT_PRESSED,
                               SHIFT_PRESSED, SHIFT_TOGGLE, SHIFT_USED_WITH_OTHER_KEY,
                               should_quit, gui_visible, gui_needs_update, ev,
                               shift_gesture, pc, locks, displayed, window_keys>>
           ELSE /\ KeyEventAnswered(w_param, vk, injected, send_ok, r)
                /\ hook_pc' = IF sends THEN "send_text_paste"
                              ELSE IF shows THEN "show_check"
                              ELSE "idle"
                /\ locks' = [l \in LockNames |->
                                 IF sends /\ l \in locks_at_send(vk) THEN "hook"
                                 ELSE IF shows /\ l = "gui_window_manager" THEN "hook"
                                 ELSE locks[l]]
                /\ displayed' = IF shows THEN state ELSE displayed
                /\ to_overlay =>
                       /\ w_param = WM_KEYDOWN_VALUE
                       /\ vk \in OverlayKeys
                       /\ gui_visible
                       /\ ~CTRL_PRESSED
                       /\ ~r.blocked
                       /\ Len(window_keys) < MaxWindowKeys
                /\ window_keys' = IF to_overlay THEN Append(window_keys, vk)
                                  ELSE window_keys

\* the call of the hook goes on to its return: send_text_paste, or
\* GuiWindowManager::show, has returned, and the guards are dropped
HookReturn ==
    /\ hook_pc \in {"send_text_paste", "show_check"}
    /\ hook_pc' = "idle"
    /\ locks' = [l \in LockNames |-> IF locks[l] = "hook" THEN "free" ELSE locks[l]]
    /\ UNCHANGED <<state, last, typed, CTRL_PRESSED, ALT_PRESSED, SHIFT_PRESSED,
                   SHIFT_TOGGLE, SHIFT_USED_WITH_OTHER_KEY, should_quit, gui_visible,
                   gui_needs_update, ev, shift_gesture, pc, displayed, window_keys>>

\* GuiWindow::handle_keyboard_event for Event::KeyDown, called with the next
\* key-down posted to the overlay window from a place where messages are
\* retrieved.  has_focus: w.has_focus().
OverlayKeyDown(has_focus) ==
    LET key == Head(window_keys)
        r   == handle_code_input(state, to_ascii_lowercase(char_from(key)))
    IN  /\ window_keys # <<>>
        /\ hook_pc \in {"idle", "show_check"}
        /\ pc \in PumpPositions
        /\ has_focus => Composable(key)
        /\ has_focus => gui_visible
        /\ locks["input_processor"] = "free"
        /\ window_keys' = Tail(window_keys)
        /\ IF ~has_focus
           THEN UNCHANGED <<state, gui_needs_update>>
           ELSE IF key = 27
           THEN state' = clear(state) /\ gui_needs_update' = TRUE
           ELSE /\ state' = r.st
                /\ gui_needs_update' = (r.ok \/ gui_needs_update)
        /\ UNCHANGED <<last, typed, CTRL_PRESSED, ALT_PRESSED, SHIFT_PRESSED,
                       SHIFT_TOGGLE, SHIFT_USED_WITH_OTHER_KEY, should_quit,
                       gui_visible, ev, shift_gesture, pc, locks, hook_pc, displayed>>

\* run_with_fltk from the return of its fltk::app::check() to the
\* fltk::app::check() of GuiWindowManager::update_display, reached with the
\* guard of gui_window_manager held and the labels set from the processor's
\* state, or, when gui_needs_update is not set, to PeekMessageW
LoopUpdateBegin ==
    /\ pc = "fltk_check"
    /\ hook_pc = "idle"
    /\ IF gui_needs_update
       THEN /\ locks' = [locks EXCEPT !["gui_window_manager"] = "run_with_fltk"]
            /\ displayed' = state
            /\ pc' = "update_check"
       ELSE /\ pc' = "peek"
            /\ UNCHANGED <<locks, displayed>>
    /\ UNCHANGED <<state, last, typed, CTRL_PRESSED, ALT_PRESSED, SHIFT_PRESSED,
                   SHIFT_TOGGLE, SHIFT_USED_WITH_OTHER_KEY, should_quit, gui_visible,
                   gui_needs_update, ev, shift_gesture, hook_pc, window_keys>>

\* run_with_fltk from the return of update_display to PeekMessageW: the
\* guard is dropped and gui_needs_update is cleared
LoopUpdateEnd ==
    /\ pc = "update_check"
    /\ hook_pc = "idle"
    /\ locks' = [locks EXCEPT !["gui_window_manager"] = "free"]
    /\ gui_needs_update' = FALSE
    /\ pc' = "peek"
    /\ UNCHANGED <<state, last, typed, CTRL_PRESSED, ALT_PRESSED, SHIFT_PRESSED,
                   SHIFT_TOGGLE, SHIFT_USED_WITH_OTHER_KEY, should_quit, gui_visible,
                   ev, shift_gesture, hook_pc, displayed, window_keys>>

LoopNext ==
    \/ \E e \in Events(ThreadKeys, {}), send_ok \in BOOLEAN, to_overlay \in BOOLEAN :
           HookCall(e[1], e[2], e[3], send_ok, to_overlay)
    \/ HookReturn
    \/ \E has_focus \in BOOLEAN : OverlayKeyDown(has_focus)
    \/ LoopUpdateBegin
    \/ LoopUpdateEnd
    \/ MainLoop

LoopSpec == Init /\ [][LoopNext]_vars

----------------------------------------------------------------------------
(* Properties *)

\* C1: whatever processor calls are made, Code never holds more than 5
\* characters.
C1_CodeLengthBounded == Len(state.current_code) <= 5

\* C1 witness: a literal was given to handle_code_input while Code already
\* held 5 characters, and Code still holds 5.
C1_Witness ==
    /\ last.op = "handle_code_input"
    /\ last.ok /\ last.text = None
    /\ last.pre_len = 5
    /\ Len(state.current_code) = 5

\* the step is the hook's answer to a real (not synthesized) Shift key-up
ShiftKeyUpStep ==
    /\ is_shift_vk(ev'.vk)
    /\ ev'.w_param = WM_KEYUP_VALUE
    /\ ~ev'.injected

\* C2: when some other key went down between a Shift key-down and its
\* key-up, that key-up leaves the mode (SHIFT_TOGGLE) as it was, in either
\* mode and whatever other modifier is held.
C2_ShiftComboNeverToggles ==
    [][(ShiftKeyUpStep /\ shift_gesture = "combined")
           => SHIFT_TOGGLE' = SHIFT_TOGGLE]_vars

\* C3: the mode starts as intercepting; a Shift key-down followed by its
\* key-up with no key-down between flips the mode once; and the mode changes
\* in no other step.
C3_ModeChangesOnlyBySoloShift ==
    /\ SHIFT_TOGGLE = FALSE
    /\ [][(ShiftKeyUpStep /\ shift_gesture = "alone")
              => SHIFT_TOGGLE' = ~SHIFT_TOGGLE]_vars
    /\ [][SHIFT_TOGGLE' # SHIFT_TOGGLE
              => (ShiftKeyUpStep /\ shift_gesture = "alone")]_vars

\* the step is a call of handle_code_input with a shortcut letter
ShortcutLetterStep ==
    /\ last'.op = "handle_code_input"
    /\ to_ascii_lowercase(last'.ch) \in {"v", "r", "s", "f", "w"}

\* Code before the step with the typed letter added
CodePlusLetter == Append(state.current_code, to_ascii_lowercase(last'.ch))

IsKey(code) == code \in DOMAIN code_to_chars

\* some dictionary key is strictly longer than code and begins with it
Extended(code) ==
    \E key \in DOMAIN code_to_chars :
        Len(key) > Len(code) /\ \A i \in 1..Len(code) : key[i] = code[i]

\* the 0-based slot a shortcut letter stands for
Slot(k) == CASE k = "v" -> 1 [] k = "r" -> 2 [] k = "s" -> 3
             [] k = "f" -> 4 [] k = "w" -> 5

\* the step returned a candidate chosen by the shortcut
Triggered == is_some(last'.text)

\* the step added the letter to Code and looked the new Code up; a full Code
\* stays as it is
HandledAsLiteral ==
    /\ last'.text = None
    /\ last'.ok
    /\ state'.current_code =
           IF Len(state.current_code) < 5 THEN CodePlusLetter ELSE state.current_code
    /\ state'.candidates =
           IF IsKey(state'.current_code) THEN code_to_chars[state'.current_code] ELSE <<>>
    /\ state'.candidate_index = 0
    /\ Len(state.current_code) < 5 => state'.complement_selected = None

\* the case C4 is about: Code c is not empty, c+k is no key, and c has the
\* candidates letter k asks for
ShortcutCase ==
    /\ ShortcutLetterStep
    /\ state.current_code # <<>>
    /\ ~IsKey(CodePlusLetter)
    /\ IsKey(state.current_code)
    /\ Len(code_to_chars[state.current_code]) >= Slot(to_ascii_lowercase(last'.ch)) + 1

C5_TriggerSelectsSlot ==
    [][(ShortcutLetterStep /\ Triggered) =>
           /\ state.current_code # <<>>
           /\ IsKey(state.current_code)
           /\ Len(code_to_chars[state.current_code])
                  >= Slot(to_ascii_lowercase(last'.ch)) + 1
           /\ state'.complement_selected =
                  Some(code_to_chars[state.current_code]
                                    [Slot(to_ascii_lowercase(last'.ch)) + 1])
           /\ last'.text = state'.complement_selected
           /\ state'.current_code = state.current_code
           /\ state'.candidates = state.candidates
           /\ state'.candidate_index = state.candidate_index]_vars

\* C5 witness: letter w triggered on Code "a" and chose its sixth candidate
C5_Witness ==
    /\ last.op = "handle_code_input"
    /\ last.ch = "w"
    /\ last.text = Some("a6")
    /\ state.current_code = <<"a">>
    /\ state.complement_selected = Some("a6")

\* the step is a call of handle_code_input with a shortcut letter that makes
\* Code a dictionary key
ShortcutLetterMakesKey == ShortcutLetterStep /\ IsKey(CodePlusLetter)

\* Code is the old Code with the letter, CandidateList its candidates, and
\* nothing is pending
LiteralOfKey ==
    /\ last'.text = None
    /\ state'.current_code = CodePlusLetter
    /\ state'.candidates = code_to_chars[CodePlusLetter]
    /\ state'.complement_selected = None

\* C6 as stated: a shortcut letter k with Code+k a dictionary key is a
\* literal: Code becomes Code+k, CandidateList lookup(Code+k), nothing pending.
C6_KeyLetterIsLiteral ==
    [][ShortcutLetterMakesKey => LiteralOfKey]_vars

\* C6 amended: the same, when Code holds fewer than 5 characters.
C6_KeyLetterIsLiteralBelowFive ==
    [][(ShortcutLetterMakesKey /\ Len(state.current_code) < 5) => LiteralOfKey]_vars

\* C6 witness: v was typed on Code "a", which has the candidates v asks for,
\* and Code is the key "av" with its candidates
C6_Witness ==
    /\ last.op = "handle_code_input"
    /\ last.ch = "v"
    /\ last.pre_len = 1
    /\ last.text = None
    /\ state.current_code = <<"a", "v">>
    /\ state.candidates = <<"av1">>
    /\ state.complement_selected = None

\* the dictionary keys made of letters only and of at most 5 characters
LetterKeys ==
    {key \in DOMAIN code_to_chars :
        /\ Len(key) <= 5
        /\ \A i \in 1..Len(key) : is_ascii_lowercase(key[i])}

\* C7: when the letters typed since the cleared state are the beginning of a
\* letters-only key of at most 5 characters, Code is those letters, nothing
\* is pending, and CandidateList is lookup(Code) (empty when Code is no key
\* yet); so the whole key typed gives Code = key, CandidateList = lookup(key).
C7_KeysCanBeTyped ==
    \A key \in LetterKeys :
        (typed # <<>> /\ Len(typed) <= Len(key)
            /\ \A i \in 1..Len(typed) : typed[i] = key[i])
        => /\ state.current_code = typed
           /\ state.complement_selected = None
           /\ state.candidates = IF IsKey(typed) THEN code_to_chars[typed] ELSE <<>>

\* C7 witness: a, s, a typed from the cleared state; s is a shortcut letter
\* and Code "a" has the candidates it asks for
C7_Witness ==
    /\ typed = <<"a", "s", "a">>
    /\ state.current_code = <<"a", "s", "a">>
    /\ state.candidates = <<"asa1">>

\* Code, CandidateList, PageCursor and PendingConfirmation are all cleared
AllCleared ==
    /\ state'.current_code = <<>>
    /\ state'.candidates = <<>>
    /\ state'.candidate_index = 0
    /\ state'.complement_selected = None

\* C8: handle_space returns PendingConfirmation when set, else the head of
\* CandidateList when not empty, and clears all state in both cases; with
\* neither it returns nothing and leaves the state as it was.
C8_ConfirmDefault ==
    [][last'.op = "handle_space" =>
           IF state.complement_selected # None
           THEN last'.text = state.complement_selected /\ last'.ok /\ AllCleared
           ELSE IF state.candidates # <<>>
           THEN last'.text = Some(state.candidates[1]) /\ last'.ok /\ AllCleared
           ELSE last'.text = None /\ ~last'.ok /\ state' = state]_vars

\* C8 witness: handle_space returned a pending candidate that is not the head
\* of any list (the third of "a", chosen by r), and the state is clear
C8_Witness ==
    /\ last.op = "handle_space"
    /\ last.text = Some("a3")
    /\ last.pre_len = 1
    /\ state = default_state

\* the slot of the page window a number addresses
NumberSlot(num) == IF num = 0 THEN 9 ELSE num - 1

\* C9: handle_number_selection(i), i in 0..9, looks at slot i-1 (9 for 0) of
\* the page window, the 6 candidates from PageCursor on: a candidate there is
\* returned and all state cleared; otherwise nothing is returned and the
\* state stays as it was.
C9_SelectByIndex ==
    [][(last'.op = "handle_number_selection" /\ last'.num \in 0..9) =>
           IF /\ NumberSlot(last'.num) < 6
              /\ state.candidate_index + NumberSlot(last'.num) < Len(state.candidates)
           THEN /\ last'.text =
                       Some(state.candidates[state.candidate_index
                                                 + NumberSlot(last'.num) + 1])
                /\ last'.ok
                /\ AllCleared
           ELSE last'.text = None /\ ~last'.ok /\ state' = state]_vars

\* C9 witness: number 1 on the second page of "a" returned its seventh
\* candidate and the state is clear
C9_Witness ==
    /\ last.op = "handle_number_selection"
    /\ last.num = 1
    /\ last.text = Some("a7")
    /\ state = default_state

\* C10: while PendingConfirmation is set Code is frozen: a step that leaves
\* PendingConfirmation set leaves Code as it was.
C10_CodeFrozenWhilePending ==
    [][(state.complement_selected # None /\ state'.complement_selected # None)
           => state'.current_code = state.current_code]_vars

\* the candidates the dictionary holds for code, none when code is no key
CandidatesOf(code) == IF IsKey(code) THEN code_to_chars[code] ELSE <<>>

\* C11: in every state where PendingConfirmation is None, CandidateList is
\* lookup(Code), and is empty when Code is empty or no key.
C11_CandidatesMatchCode ==
    state.complement_selected = None =>
        /\ state.candidates = CandidatesOf(state.current_code)
        /\ (state.current_code = <<>> \/ ~IsKey(state.current_code))
               => state.candidates = <<>>

\* C11 witness: a Backspace shortened Code "aa" to "a", nothing is pending
\* and CandidateList holds the candidates of "a"
C11_Witness ==
    /\ last.op = "handle_backspace"
    /\ last.ok
    /\ state.complement_selected = None
    /\ state.current_code = <<"a">>
    /\ state.candidates = <<"a1", "a2", "a3", "a4", "a5", "a6", "a7">>

\* the step is a call of handle_code_input that took the literal path
\* (append_code, then lookup_candidates)
LiteralStep ==
    /\ last'.op = "handle_code_input"
    /\ last'.ok
    /\ last'.text = None

\* C12 as stated: after any literal append PendingConfirmation is None.
C12_AppendClearsPending ==
    [][LiteralStep => state'.complement_selected = None]_vars

\* C12 amended: after a literal append to a Code of fewer than 5 characters
\* PendingConfirmation is None.
C12_AppendBelowFiveClearsPending ==
    [][(LiteralStep /\ Len(state.current_code) < 5)
           => state'.complement_selected = None]_vars

\* C12 witness: a letter was appended to Code ".", which is only held with
\* its candidate pending, and nothing is pending now
C12_Witness ==
    /\ last.op = "handle_code_input"
    /\ last.ok /\ last.text = None
    /\ last.pre_len = 1
    /\ state.current_code = <<".", "a">>
    /\ state.complement_selected = None

PagingFrame ==
    /\ state'.current_code = state.current_code
    /\ state'.candidates = state.candidates
    /\ state'.complement_selected = state.complement_selected

\* C14: PageCursor is 0 when CandidateList is empty and less than its length
\* otherwise; next_page adds 6 only when a further page exists, prev_page
\* takes 6 away without going below 0, and both leave Code, CandidateList
\* and PendingConfirmation as they were.
C14_PageCursorInRange ==
    /\ [](IF state.candidates = <<>>
          THEN state.candidate_index = 0
          ELSE state.candidate_index \in 0..(Len(state.candidates) - 1))
    /\ [][last'.op = "next_page" =>
              /\ state'.candidate_index =
                     IF state.candidate_index + 6 < Len(state.candidates)
                     THEN state.candidate_index + 6
                     ELSE state.candidate_index
              /\ PagingFrame]_vars
    /\ [][last'.op = "prev_page" =>
              /\ state'.candidate_index =
                     IF state.candidate_index >= 6
                     THEN state.candidate_index - 6
                     ELSE 0
              /\ PagingFrame]_vars

\* C14 witness: prev_page came back from the second page of a list of 7
C14_Witness ==
    /\ last.op = "prev_page"
    /\ last.ok
    /\ state.candidate_index = 0
    /\ Len(state.candidates) = 7

\* C15: handle_backspace on empty Code returns false and changes nothing; on
\* a Code that is not empty it returns true, removes exactly the last
\* character, and CandidateList is lookup of the shortened Code, PageCursor 0.
C15_DeleteLast ==
    [][last'.op = "handle_backspace" =>
           IF state.current_code = <<>>
           THEN ~last'.ok /\ state' = state
           ELSE /\ last'.ok
                /\ Len(state'.current_code) = Len(state.current_code) - 1
                /\ \A i \in 1..Len(state'.current_code) :
                       state'.current_code[i] = state.current_code[i]
                /\ state'.candidates = CandidatesOf(state'.current_code)
                /\ state'.candidate_index = 0]_vars

\* C15 witness: a Backspace shortened the key "asa" to "as", which has no
\* candidates
C15_Witness ==
    /\ last.op = "handle_backspace"
    /\ last.ok
    /\ last.pre_len = 3
    /\ state.current_code = <<"a", "s">>
    /\ state.candidates = <<>>

\* C16: a handle_backspace that removes the last remaining character leaves
\* Code empty, CandidateList empty, PageCursor 0 and PendingConfirmation None.
C16_BackspaceToEmptyResets ==
    [][(last'.op = "handle_backspace" /\ Len(state.current_code) = 1)
           => AllCleared]_vars

\* the step is a call of handle_symbol_input
SymbolStep == last'.op = "handle_symbol_input"

\* Code before the step with the symbol added
CodePlusSymbol == Append(state.current_code, last'.ch)

\* code is a key that has a candidate
Resolves(code) == IsKey(code) /\ code_to_chars[code] # <<>>

\* C17: handle_symbol_input with Code not empty: when Code+s is a key with
\* candidates, PendingConfirmation (and the returned text) is its first
\* candidate and Code stays; otherwise the call returns (false, None) and
\* the whole state stays as it was.
C17_SymbolOnCode ==
    [][(SymbolStep /\ state.current_code # <<>>) =>
           IF Resolves(CodePlusSymbol)
           THEN /\ last'.ok
                /\ last'.text = Some(code_to_chars[CodePlusSymbol][1])
                /\ state'.complement_selected = last'.text
                /\ state'.current_code = state.current_code
           ELSE ~last'.ok /\ last'.text = None /\ state' = state]_vars

\* C17 witness: "." on Code "a" made the first candidate of "a." pending
C17_Witness ==
    /\ last.op = "handle_symbol_input"
    /\ last.ch = "."
    /\ last.pre_len = 1
    /\ state.current_code = <<"a">>
    /\ state.complement_selected = Some("qmark")

\* a second symbol on a Code that is one symbol resolves against the
\* two-symbol key, and Code stays the first symbol
SecondSymbolResolves ==
    [][(/\ SymbolStep
        /\ Len(state.current_code) = 1
        /\ ~is_ascii_lowercase(state.current_code[1])
        /\ Resolves(CodePlusSymbol)) =>
           /\ state'.complement_selected = Some(code_to_chars[CodePlusSymbol][1])
           /\ state'.current_code = state.current_code]_vars

\* the tentative append is undone and the call reports nothing resolved
SymbolReverted ==
    /\ state'.current_code = <<>>
    /\ ~last'.ok
    /\ last'.text = None

\* C18 as stated: handle_symbol_input with Code empty: when s is a key, Code
\* is s and PendingConfirmation the first candidate of s, and a second symbol
\* t resolves against s+t with Code still s; when s is no key the append is
\* undone.
C18_SymbolOnEmptyCode ==
    /\ [][(SymbolStep /\ state.current_code = <<>>) =>
              IF IsKey(<<last'.ch>>)
              THEN /\ state'.current_code = <<last'.ch>>
                   /\ Resolves(<<last'.ch>>)
                   /\ state'.complement_selected = Some(code_to_chars[<<last'.ch>>][1])
              ELSE SymbolReverted]_vars
    /\ SecondSymbolResolves

\* C18 amended: the same with "s is a key that has a candidate" for "s is a
\* key": a key without candidates is undone like a symbol that is no key.
C18_SymbolOnEmptyCodeWithCandidate ==
    /\ [][(SymbolStep /\ state.current_code = <<>>) =>
              IF Resolves(<<last'.ch>>)
              THEN /\ state'.current_code = <<last'.ch>>
                   /\ last'.ok
                   /\ last'.text = Some(code_to_chars[<<last'.ch>>][1])
                   /\ state'.complement_selected = last'.text
              ELSE SymbolReverted]_vars
    /\ SecondSymbolResolves

\* C18 witness: "." twice from the clear state: Code is "." and the
\* candidate of ".." is pending
C18_Witness ==
    /\ last.op = "handle_symbol_input"
    /\ last.ch = "."
    /\ last.pre_len = 1
    /\ state.current_code = <<".">>
    /\ state.complement_selected = Some("colon")

\* C19: clear leaves Code empty, CandidateList empty, PageCursor 0 and
\* PendingConfirmation None, whatever the state was.
C19_ClearResetsAll ==
    [][last'.op = "clear" => AllCleared]_vars

\* C19 witness: clear was called with 5 characters in Code and the state is
\* the clear state
C19_Witness ==
    /\ last.op = "clear"
    /\ last.pre_len = 5
    /\ state = default_state

\* the step is the hook called with an event that carries LLKHF_INJECTED
InjectedStep ==
    /\ ev'.injected
    /\ \E send_ok \in BOOLEAN : KeyEvent(ev'.w_param, ev'.vk, TRUE, send_ok)

\* C20: an injected key event changes no modifier flag, not the Shift guard,
\* not the mode, not the composition state, not the quit or dirty flag or
\* the overlay, is forwarded, and delivers nothing.
C20_InjectedEventDiscarded ==
    [][InjectedStep =>
           /\ UNCHANGED <<CTRL_PRESSED, ALT_PRESSED, SHIFT_PRESSED>>
           /\ UNCHANGED SHIFT_USED_WITH_OTHER_KEY
           /\ UNCHANGED SHIFT_TOGGLE
           /\ UNCHANGED state
           /\ UNCHANGED <<should_quit, gui_needs_update, gui_visible>>
           /\ ~ev'.blocked
           /\ ev'.sent = None]_vars

\* C20 witness: a synthesized Ctrl key-down reached the hook in intercepting
\* mode with the overlay hidden and a composition under way; CTRL_PRESSED is
\* not set and Code is still there
C20_Witness ==
    /\ ev.injected
    /\ ev.vk = 17
    /\ ev.w_param = WM_KEYDOWN_VALUE
    /\ ~ev.blocked
    /\ ~CTRL_PRESSED
    /\ ~SHIFT_TOGGLE
    /\ ~gui_visible
    /\ state.current_code # <<>>

\* the step is a call of the hook, with the event and the answer held in ev'
HookStep == \E send_ok \in BOOLEAN : KeyEvent(ev'.w_param, ev'.vk, ev'.injected, send_ok)

\* the step is the hook's answer to a real (not synthesized) key-down of F4
QuitKeyStep ==
    /\ ev'.vk = 115
    /\ ev'.w_param = WM_KEYDOWN_VALUE
    /\ ~ev'.injected
    /\ HookStep

\* C21: a real key-down of F4 sets should_quit and is blocked, whatever the
\* mode, the modifier flags and the overlay; should_quit, once set, stays set;
\* and the loop that comes back to its top with should_quit set does not
\* start another iteration.
C21_QuitHotkey ==
    /\ [][QuitKeyStep => (should_quit' /\ ev'.blocked)]_vars
    /\ [][should_quit => should_quit']_vars
    /\ [][(pc = "peek" /\ pc' # pc /\ should_quit) => pc' = "done"]_vars

\* C21 witness: F4 went down in pass-through mode with Ctrl held and the
\* overlay hidden; it was blocked, and the loop has ended.
C21_Witness ==
    /\ ev.vk = 115 /\ ev.w_param = WM_KEYDOWN_VALUE /\ ~ev.injected
    /\ ev.blocked
    /\ should_quit
    /\ SHIFT_TOGGLE /\ CTRL_PRESSED /\ ~gui_visible
    /\ pc = "done"

\* the step is the hook's answer to a real key-down of Space, Enter or a digit
\* that resolved a string and handed it to send_text_paste
ResolvingKeyStep ==
    /\ ev'.w_param = WM_KEYDOWN_VALUE
    /\ ~ev'.injected
    /\ ev'.vk \in {32, 13} \cup 48..57
    /\ is_some(ev'.sent)
    /\ HookStep

\* C22: when send_text_paste fails for the string a Space, Enter or digit
\* key-down resolved, that key-down is still blocked.
C22_FailedDeliveryStillConsumes ==
    [][(ResolvingKeyStep /\ ~ev'.sent_ok) => ev'.blocked]_vars

\* the step is the hook's answer to a real key-down of Space, Enter or a digit
\* in which some text was handed to send_text_paste
DeliveringKeyStep ==
    /\ ev'.w_param = WM_KEYDOWN_VALUE
    /\ ~ev'.injected
    /\ ev'.vk \in {32, 13} \cup 48..57
    /\ ev'.sent # <<>>
    /\ HookStep

\* the string the key resolves in the state before the step: for Space and
\* Enter the pending candidate, else the head of CandidateList; for a digit
\* the candidate at its slot of the current page
ResolvedText ==
    IF ev'.vk \in {32, 13}
    THEN IF state.complement_selected # <<>>
         THEN state.complement_selected
         ELSE <<state.candidates[1]>>
    ELSE <<state.candidates[state.candidate_index
                                + (IF ev'.vk = 48 THEN 10 ELSE ev'.vk - 48)]>>

\* C23: after a Space, Enter or digit key-down that resolved a string, Code
\* and CandidateList are empty and PendingConfirmation is None, whether
\* send_text_paste succeeded or failed, and send_text_paste was called once,
\* with that string.
C23_ResolvedKeyClearsState ==
    [][DeliveringKeyStep =>
           /\ state'.current_code = <<>>
           /\ state'.candidates = <<>>
           /\ state'.complement_selected = <<>>
           /\ Len(ev'.sent) = 1
           /\ ev'.sent = ResolvedText]_vars

\* C23 witness: Enter went down on Code "a", the delivery of "a1" failed, and
\* the state is clear.
C23_Witness ==
    /\ ev.vk = 13 /\ ev.w_param = WM_KEYDOWN_VALUE /\ ~ev.injected
    /\ ev.sent = <<"a1">>
    /\ ~ev.sent_ok
    /\ state.current_code = <<>>
    /\ state.candidates = <<>>
    /\ state.complement_selected = <<>>

\* the step is the hook's answer to a real key-down of a letter, a digit, the
\* period or the comma, made in intercepting mode with the overlay hidden and
\* Ctrl not held
ComposingKeyStep ==
    /\ ev'.w_param = WM_KEYDOWN_VALUE
    /\ ~ev'.injected
    /\ ev'.vk \in (65..90) \cup (48..57) \cup {190, 110, 188}
    /\ ~SHIFT_TOGGLE
    /\ ~gui_visible
    /\ ~CTRL_PRESSED
    /\ HookStep

HotKeyEvent ==
    /\ ev'.w_param = WM_KEYDOWN_VALUE
    /\ ~ev'.injected
    /\ ev'.vk = 115 \/ (ev'.vk = 32 /\ CTRL_PRESSED)

\* the step is the hook's answer, in pass-through mode, to an event that is
\* neither a hot key nor an event of a Shift key
PassThroughStep ==
    /\ SHIFT_TOGGLE
    /\ ~(ev'.vk = 16 \/ ev'.vk = 160 \/ ev'.vk = 161)
    /\ ~HotKeyEvent
    /\ HookStep

\* C25: in pass-through mode every event that is neither a hot key nor a
\* Shift event is let through, and Code, CandidateList, PageCursor and
\* PendingConfirmation stay as they were.
C25_PassThroughForwards ==
    [][PassThroughStep =>
           /\ ~ev'.blocked
           /\ ev'.sent = <<>>
           /\ state'.current_code = state.current_code
           /\ state'.candidates = state.candidates
           /\ state'.candidate_index = state.candidate_index
           /\ state'.complement_selected = state.complement_selected]_vars

\* C25 witness: in pass-through mode, with the overlay hidden and Ctrl not
\* held, the key A went down and was let through.
C25_Witness ==
    /\ ev.vk = 65 /\ ev.w_param = WM_KEYDOWN_VALUE /\ ~ev.injected
    /\ ~ev.blocked
    /\ SHIFT_TOGGLE /\ ~gui_visible /\ ~CTRL_PRESSED

\* the step is the hook's answer to a real key-down or key-up of a Shift key
ShiftKeyStep ==
    /\ ev'.vk = 16 \/ ev'.vk = 160 \/ ev'.vk = 161
    /\ ev'.w_param = WM_KEYDOWN_VALUE \/ ev'.w_param = WM_KEYUP_VALUE
    /\ ~ev'.injected
    /\ HookStep

\* C26 as stated: every real Shift key-down and key-up is blocked, in both
\* modes, whether or not it changes the mode.
C26_ShiftAlwaysConsumed == [][ShiftKeyStep => ev'.blocked]_vars

\* C26 amended: every real Shift key-down and key-up is let through, in both
\* modes, whether or not it changes the mode.
C26_ShiftAlwaysForwarded == [][ShiftKeyStep => ~ev'.blocked]_vars

\* C26 witness: a Shift key-up changed the mode to pass-through, clearing a
\* Code in progress, and was let through.
C26_Witness ==
    /\ ev.vk = 16 /\ ev.w_param = WM_KEYUP_VALUE /\ ~ev.injected
    /\ ~ev.blocked
    /\ SHIFT_TOGGLE
    /\ gui_needs_update
    /\ state.current_code = <<>>

\* the step is the hook's answer to a real key-down or key-up of a Ctrl or
\* Alt key: the generic, the left or the right one
CtrlAltKeyStep ==
    /\ ev'.vk \in {17, 162, 163, 18, 164, 165}
    /\ ev'.w_param = WM_KEYDOWN_VALUE \/ ev'.w_param = WM_KEYUP_VALUE
    /\ ~ev'.injected
    /\ HookStep

\* C27: every real key-down and key-up of a Ctrl or Alt key is let through,
\* in both modes and whatever the overlay and the composition state are, and
\* leaves CTRL_PRESSED (for a Ctrl key) or ALT_PRESSED (for an Alt key) set
\* exactly when the event is a key-down.
C27_CtrlAltAlwaysForwarded ==
    [][CtrlAltKeyStep =>
           /\ ~ev'.blocked
           /\ ev'.vk \in {17, 162, 163}
                  => CTRL_PRESSED' = (ev'.w_param = WM_KEYDOWN_VALUE)
           /\ ev'.vk \in {18, 164, 165}
                  => ALT_PRESSED' = (ev'.w_param = WM_KEYDOWN_VALUE)]_vars

\* the step is the hook's answer, in intercepting mode and with CTRL_PRESSED
\* set, to a key-down that is not a hot key
CtrlHeldKeyDownStep ==
    /\ ~SHIFT_TOGGLE
    /\ CTRL_PRESSED
    /\ ev'.w_param = WM_KEYDOWN_VALUE
    /\ ~HotKeyEvent
    /\ HookStep

\* C28: in intercepting mode a key-down that comes while Ctrl is held, and is
\* no hot key, is let through, hands nothing to send_text_paste, and leaves
\* Code, CandidateList, PageCursor and PendingConfirmation as they were.
C28_CtrlHeldForwards ==
    [][CtrlHeldKeyDownStep =>
           /\ ~ev'.blocked
           /\ ev'.sent = <<>>
           /\ state'.current_code = state.current_code
           /\ state'.candidates = state.candidates
           /\ state'.candidate_index = state.candidate_index
           /\ state'.complement_selected = state.complement_selected]_vars

\* C28 witness: with Code "a", the overlay hidden and Ctrl held in
\* intercepting mode, the key A went down and was let through; Code is
\* still "a".
C28_Witness ==
    /\ ev.vk = 65 /\ ev.w_param = WM_KEYDOWN_VALUE /\ ~ev.injected
    /\ ~ev.blocked
    /\ ~SHIFT_TOGGLE /\ CTRL_PRESSED /\ ~gui_visible
    /\ state.current_code = <<"a">>

\* the step is the hook's answer to a key-down that gets as far as the test
\* of the overlay: a real key-down, of a key that is not F4, Ctrl or Shift,
\* in intercepting mode with Ctrl not held
RoutingKeyDownStep ==
    /\ ev'.w_param = WM_KEYDOWN_VALUE
    /\ ~ev'.injected
    /\ ev'.vk \notin {115, 17, 162, 163, 16, 160, 161}
    /\ ~SHIFT_TOGGLE
    /\ ~CTRL_PRESSED
    /\ HookStep

\* C29: while the overlay is visible, every key-down that gets as far as the
\* routing step is let through with Code, CandidateList, PageCursor and
\* PendingConfirmation untouched and nothing handed to send_text_paste; and
\* no key-down at all that the hook lets through while the overlay is visible
\* (the only ones the overlay's own handler can receive) has changed them.
C29_OverlayVisibleForwards ==
    /\ [][(RoutingKeyDownStep /\ gui_visible) =>
              /\ ~ev'.blocked
              /\ ev'.sent = <<>>
              /\ state' = state
              /\ gui_needs_update' = gui_needs_update]_vars
    /\ [][(ev'.w_param = WM_KEYDOWN_VALUE /\ gui_visible /\ ~ev'.blocked /\ HookStep)
              => state' = state]_vars

\* C29 witness: Code "a" was typed with the overlay hidden, the overlay was
\* shown again, and then the key A went down in intercepting mode with Ctrl
\* not held: it was let through and Code is still "a".
C29_Witness ==
    /\ ev.vk = 65 /\ ev.w_param = WM_KEYDOWN_VALUE /\ ~ev.injected
    /\ ~ev.blocked
    /\ gui_visible /\ ~SHIFT_TOGGLE /\ ~CTRL_PRESSED
    /\ state.current_code = <<"a">>

\* the step is the hook's answer to a real key-down of Space made while
\* CTRL_PRESSED is set
OverlayHotKeyStep ==
    /\ ev'.vk = 32
    /\ ev'.w_param = WM_KEYDOWN_VALUE
    /\ ~ev'.injected
    /\ CTRL_PRESSED
    /\ HookStep

\* C30: a real key-down of Space while Ctrl is held turns a visible overlay
\* hidden and a hidden overlay visible, and is blocked, in intercepting and
\* in pass-through mode alike.
C30_OverlayHotKeyFlips ==
    [][OverlayHotKeyStep =>
           /\ gui_visible' = ~gui_visible
           /\ ev'.blocked
           /\ SHIFT_TOGGLE' = SHIFT_TOGGLE]_vars

\* C30 witness: in pass-through mode Space went down with Ctrl held; it was
\* blocked and the overlay, hidden before, is visible.
C30_Witness ==
    /\ ev.vk = 32 /\ ev.w_param = WM_KEYDOWN_VALUE /\ ~ev.injected
    /\ ev.blocked
    /\ CTRL_PRESSED
    /\ SHIFT_TOGGLE
    /\ gui_visible

\* the keys the routing step gives to the composition state machine: the
\* letters, the digits, Space, Enter, Backspace, Escape, period and comma
ComposingKeys == (65..90) \cup (48..57) \cup {32, 13, 8, 27, 190, 110, 188}

\* the step is the hook's answer to a real key-down made in intercepting mode
\* with the overlay hidden and Ctrl not held, of a key that is neither a
\* composing key, nor a Shift, Ctrl or Alt key, nor the hot key F4
OtherKeyStep ==
    /\ ev'.w_param = WM_KEYDOWN_VALUE
    /\ ~ev'.injected
    /\ ev'.vk \notin ComposingKeys
    /\ ev'.vk \notin {16, 160, 161, 17, 162, 163, 18, 164, 165, 115}
    /\ ~SHIFT_TOGGLE
    /\ ~gui_visible
    /\ ~CTRL_PRESSED
    /\ HookStep

\* C31 as stated: in intercepting mode with the overlay hidden and Ctrl not
\* held, every key-down of a key that is no composing key, no modifier and no
\* hot key is blocked and changes nothing of the composition.
C31_OtherKeysConsumed ==
    [][OtherKeyStep =>
           /\ ev'.blocked
           /\ ev'.sent = <<>>
           /\ state' = state]_vars

\* C31 amended: such a key-down is let through when the key has a match arm
\* of its own that forwards it (function keys, arrows, Tab, the lock keys,
\* navigation and editing keys, PrintScreen, Pause, Win, Menu) and is blocked
\* otherwise; in both cases nothing is sent and the composition is unchanged.
C31_OtherKeysConsumedUnlessListed ==
    [][OtherKeyStep =>
           /\ ev'.blocked = ~is_forwarded_vk(ev'.vk)
           /\ ev'.sent = <<>>
           /\ state' = state
           /\ gui_needs_update' = gui_needs_update]_vars

\* C31 witness: VK_OEM_1 went down on Code "a" in intercepting mode with the
\* overlay hidden and Ctrl not held; it was blocked and Code is still "a".
C31_Witness ==
    /\ ev.vk = 186 /\ ev.w_param = WM_KEYDOWN_VALUE /\ ~ev.injected
    /\ ev.blocked
    /\ ~SHIFT_TOGGLE /\ ~gui_visible /\ ~CTRL_PRESSED
    /\ state.current_code = <<"a">>

\* the step is the hook's answer to a real key-down of Escape that gets to
\* the match: intercepting mode, Ctrl not held, the overlay hidden
EscapeKeyStep ==
    /\ ev'.vk = 27
    /\ ev'.w_param = WM_KEYDOWN_VALUE
    /\ ~ev'.injected
    /\ ~SHIFT_TOGGLE
    /\ ~CTRL_PRESSED
    /\ ~gui_visible
    /\ HookStep

\* C32: an Escape key-down that gets to the match is blocked, resets the
\* processor's whole state and sets gui_needs_update when Code is not empty;
\* when Code is empty it is let through and the state stays as it was.
C32_EscapeClearsOrForwards ==
    [][EscapeKeyStep =>
           IF state.current_code # <<>>
           THEN /\ ev'.blocked
                /\ state' = default_state
                /\ gui_needs_update'
           ELSE /\ ~ev'.blocked
                /\ state' = state
                /\ gui_needs_update' = gui_needs_update]_vars

\* C32 witness: Escape went down on a Code in progress (it was blocked, which
\* the hook does only then); the state is clear and gui_needs_update is set.
C32_Witness ==
    /\ ev.vk = 27 /\ ev.w_param = WM_KEYDOWN_VALUE /\ ~ev.injected
    /\ ev.blocked
    /\ ~SHIFT_TOGGLE /\ ~CTRL_PRESSED /\ ~gui_visible
    /\ state = default_state
    /\ gui_needs_update

\* the step is a call of the hook that changed Code, CandidateList or
\* PendingConfirmation, or handed a string to send_text_paste
ComposingChangeStep ==
    /\ \/ state'.current_code # state.current_code
       \/ state'.candidates # state.candidates
       \/ state'.complement_selected # state.complement_selected
       \/ ev'.sent # <<>>
    /\ HookStep

\* C33: every call of the hook that changes Code, CandidateList or
\* PendingConfirmation, and every call that resolves a string, leaves
\* gui_needs_update set.
C33_ChangeSetsDirty == [][ComposingChangeStep => gui_needs_update']_vars

\* the hook's answer to a real key-down of the key vk in the current state
KeyDownAnswer(vk, send_ok) ==
    process_keyboard_event(Hook, state, WM_KEYDOWN_VALUE, vk, FALSE, send_ok)

\* C34: in every reachable state where Ctrl is not held (with Ctrl held,
\* Space is the overlay's hot key), a key-down of Enter and a key-down of
\* Space get the same answer from the hook: blocked or let through alike, the
\* same text handed to send_text_paste, the same processor state afterwards.
C34_EnterEquivalentToSpace ==
    ~CTRL_PRESSED =>
        \A send_ok \in BOOLEAN :
            LET enter == KeyDownAnswer(13, send_ok)
                space == KeyDownAnswer(32, send_ok)
            IN  /\ enter.blocked = space.blocked
                /\ enter.sent = space.sent
                /\ enter.st = space.st

\* the numbers whose slot lies past the page window: 7, 8, 9 (slots 6, 7, 8)
\* and 0 (slot 9)
UnreachableNumbers == {n \in 0..9 : NumberSlot(n) >= candidates_per_page}

\* C36: in every reachable state handle_number_selection returns None for
\* each of the numbers 7, 8, 9 and 0 and leaves the state as it is; and every
\* call made with one of them has done so.
C36_HighDigitsSelectNothing ==
    /\ [](/\ UnreachableNumbers = {7, 8, 9, 0}
          /\ \A num \in UnreachableNumbers :
                 handle_number_selection(state, num) = Ret(state, FALSE, None))
    /\ [][(last'.op = "handle_number_selection" /\ last'.num \in UnreachableNumbers)
              => (last'.text = None /\ ~last'.ok /\ state' = state)]_vars

\* C36 witness: handle_number_selection(7) was called on the first page of
\* Code "a", which has a seventh candidate; it returned None and the seven
\* candidates are still there.
C36_Witness ==
    /\ last.op = "handle_number_selection"
    /\ last.num = 7
    /\ last.text = None
    /\ state.current_code = <<"a">>
    /\ Len(state.candidates) = 7
    /\ state.candidate_index = 0

\* every string of every candidate list of the dictionary
DictionaryCandidates ==
    UNION {{code_to_chars[k][i] : i \in 1..Len(code_to_chars[k])} :
               k \in DOMAIN code_to_chars}

\* the step is a call of the hook that handed a string to send_text_paste
DeliveryStep ==
    /\ ev'.sent # <<>>
    /\ HookStep

\* C37: every string the hook hands to send_text_paste is a candidate of the
\* dictionary, and indeed a candidate of the list looked up for Code or the
\* pending confirmation; it is never a character of Code.
C37_DeliveredTextIsCandidate ==
    [][DeliveryStep =>
           /\ ev'.sent[1] \in DictionaryCandidates
           /\ \/ ev'.sent = state.complement_selected
              \/ \E i \in 1..Len(state.candidates) : ev'.sent[1] = state.candidates[i]
           /\ \A i \in 1..Len(state.current_code) : ev'.sent[1] # state.current_code[i]]_vars

\* C37 witness: the digit 1 went down on Code "a" and "a1", the first
\* candidate of "a", was handed to send_text_paste.
C37_Witness ==
    /\ ev.vk = 49 /\ ev.w_param = WM_KEYDOWN_VALUE /\ ~ev.injected
    /\ ev.sent = <<"a1">>
    /\ ev.sent_ok
    /\ ev.blocked

\* the step is the hook's answer to a Shift key-up that changed the mode
ModeSwitchStep ==
    /\ ev'.vk = 16 \/ ev'.vk = 160 \/ ev'.vk = 161
    /\ ev'.w_param = WM_KEYUP_VALUE
    /\ SHIFT_TOGGLE' # SHIFT_TOGGLE
    /\ HookStep

\* C38: right after a Shift key-up that changed the mode, Code and
\* CandidateList are empty and PendingConfirmation is None.
C38_ModeSwitchDiscardsComposition ==
    [][ModeSwitchStep =>
           /\ state'.current_code = <<>>
           /\ state'.candidates = <<>>
           /\ state'.complement_selected = <<>>]_vars

\* C35: whenever a call of the hook is inside send_text_paste (for the string
\* a Space, Enter or digit key-down resolved), no frame holds the guard of the
\* input_processor Mutex.
C35_NoProcessorLockDuringDelivery ==
    hook_pc = "send_text_paste" => locks["input_processor"] = "free"

\* the step is run_with_fltk coming back from update_display, on to PeekMessageW
UpdateFinishedStep == pc = "update_check" /\ pc' = "peek"

\* C39: when the processor's state is no longer the one update_display set
\* the labels from by the time run_with_fltk comes back from update_display,
\* gui_needs_update is set after run_with_fltk has gone on to PeekMessageW.
C39_DirtySignalNotLost ==
    [][(UpdateFinishedStep /\ state # displayed) => gui_needs_update']_vars

\* the thread is at a place where it retrieves pending messages, so that the
\* hook or the overlay's key handler may be called
AtPump == hook_pc \in {"idle", "show_check"} /\ pc \in PumpPositions

\* C40: whenever the thread is at a place where it retrieves messages, the
\* guards of gui_window_manager and input_processor are held by no frame; and
\* no call of the hook is ever stuck in lock() on a Mutex whose guard a frame
\* of its own thread holds.
C40_NoLockHeldWhilePumping ==
    /\ AtPump => (locks["gui_window_manager"] = "free"
                      /\ locks["input_processor"] = "free")
    /\ hook_pc # "blocked"

====
